---- MODULE Spec2Model ----
(***************************************************************************)
(* Model of the Prominence palette extractor: the color-cut quantizer      *)
(* (color_cut_quantizer.rs), the color filter (filter.rs) and the palette  *)
(* assembler (lib.rs, target.rs).                                          *)
(*                                                                         *)
(* Numbers.  Channels are u8.  f32 quantities are kept as exact fractions  *)
(* (numerator, denominator) wherever the code only compares them with a    *)
(* constant; thresholds are written in hundredths (0.05 is 5).  Scores are *)
(* kept in fixed point, Scale units to 1.0.                                *)
(***************************************************************************)
EXTENDS Integers, Sequences, FiniteSets, TLC

(* ----------------------------- bounds ---------------------------------- *)
MaxPixels == 4
MaxSmallColors == 3
MaxDim == 4

(* ------------------------- program constants --------------------------- *)
QUANTIZE_WORD_WIDTH == 5
QUANTIZE_WORD_MAX == 31
DEFAULT_CALCULATE_NUMBER_COLORS == 16
BLACK_MAX_LIGHTNESS == 5
WHITE_MIN_LIGHTNESS == 95
CUSTOM_BLACK_MAX_LIGHTNESS == 2
CUSTOM_WHITE_MIN_LIGHTNESS == 90
WEIGHT_SATURATION == 24
WEIGHT_LUMA == 52
WEIGHT_POPULATION == 24
MIN_VIBRANT_SATURATION == 35
TARGET_VIBRANT_SATURATION == 100
TARGET_MUTED_SATURATION == 30
MAX_MUTED_SATURATION == 40
MIN_LIGHT_LUMA == 55
TARGET_LIGHT_LUMA == 74
TARGET_DARK_LUMA == 26
MAX_DARK_LUMA == 45
MIN_NORMAL_LUMA == 30
TARGET_NORMAL_LUMA == 50
MAX_NORMAL_LUMA == 70
Scale == 10000

(* ----------------------------- helpers --------------------------------- *)
Pow2(n) == IF n = 0 THEN 1 ELSE IF n = 1 THEN 2 ELSE IF n = 2 THEN 4
           ELSE IF n = 3 THEN 8 ELSE IF n = 4 THEN 16 ELSE IF n = 5 THEN 32
           ELSE IF n = 6 THEN 64 ELSE 128

Abs(x) == IF x < 0 THEN 0 - x ELSE x

Max2(a, b) == IF a >= b THEN a ELSE b

Min2(a, b) == IF a <= b THEN a ELSE b

Front(s) == SubSeq(s, 1, Len(s) - 1)

Last(s) == s[Len(s)]

Perms(S) == {f \in [1..Cardinality(S) -> S] : \A i, j \in DOMAIN f : i # j => f[i] # f[j]}

(* u8::wrapping_shl / wrapping_shr: the shift amount is taken modulo 8 and *)
(* the result is kept in 8 bits.                                           *)
modify_width(value, current_width, target_width) ==
    IF target_width > current_width
    THEN (value * Pow2((target_width - current_width) % 8)) % 256
    ELSE value \div Pow2((current_width - target_width) % 8)

(* Pixel::to_rgb for Rgb<u8> and Rgba<u8>: the first three channels.       *)
pixel_to_rgb(pixel) == <<pixel[1], pixel[2], pixel[3]>>

(* Pixel::map applies the closure to every channel, alpha included.        *)
QuantizePixel(pixel) == [i \in DOMAIN pixel |-> modify_width(pixel[i], 8, QUANTIZE_WORD_WIDTH)]

(* ------------------------------ HSL ------------------------------------ *)
(* rgb_to_hsl as exact fractions: h = hn/hd degrees, s = sn/sd, l = ln/ld. *)
rgb_to_hsl(rgb) ==
    LET r == rgb[1]
        g == rgb[2]
        b == rgb[3]
        max == Max2(Max2(r, g), b)
        min == Min2(Min2(r, g), b)
        c == max - min
    IN  IF c = 0
        THEN [hn |-> 0, hd |-> 1, sn |-> 0, sd |-> 1, ln |-> max + min, ld |-> 510]
        ELSE [hn |-> IF max = r
                     THEN (IF g - b < 0 THEN 60 * ((g - b) + 6 * c) ELSE 60 * (g - b))
                     ELSE IF max = g
                          THEN 60 * ((b - r) + 2 * c)
                          ELSE 60 * ((r - g) + 4 * c),
              hd |-> c,
              sn |-> c,
              sd |-> 255 - Abs((max + min) - 255),
              ln |-> max + min,
              ld |-> 510]

is_black(hsl) == hsl.ln * 100 <= BLACK_MAX_LIGHTNESS * hsl.ld

is_white(hsl) == hsl.ln * 100 >= WHITE_MIN_LIGHTNESS * hsl.ld

is_near_red_i_line(hsl) ==
    /\ 10 * hsl.hd <= hsl.hn
    /\ hsl.hn <= 37 * hsl.hd
    /\ hsl.sn * 100 <= 82 * hsl.sd

DefaultFilter_is_allowed(rgb, hsl) ==
    ~is_black(hsl) /\ ~is_white(hsl) /\ ~is_near_red_i_line(hsl)

(* examples/filter.rs: the default lightness test with other thresholds.   *)
CustomFilter_is_allowed(rgb, hsl) ==
    /\ ~(hsl.ln * 100 <= CUSTOM_BLACK_MAX_LIGHTNESS * hsl.ld)
    /\ ~(hsl.ln * 100 >= CUSTOM_WHITE_MIN_LIGHTNESS * hsl.ld)

(* A filter is a trait object.  Besides the two filters above the model    *)
(* has implementations that reject a listed set of colors.                 *)
is_allowed(filter, rgb, hsl) ==
    CASE filter.kind = "DefaultFilter" -> DefaultFilter_is_allowed(rgb, hsl)
      [] filter.kind = "CustomFilter" -> CustomFilter_is_allowed(rgb, hsl)
      [] OTHER -> rgb \notin filter.rejects

(* a test that ignores a color only when all filters reject it            *)
should_ignore_color_all(filterList, rgb) ==
    \A i \in DOMAIN filterList : ~is_allowed(filterList[i], rgb, rgb_to_hsl(rgb))

should_ignore_color(filterList, rgb) ==
    \E i \in DOMAIN filterList : ~is_allowed(filterList[i], rgb, rgb_to_hsl(rgb))

(* ------------------------------ Swatch --------------------------------- *)
Swatch_new(rgb, population) == [rgb |-> rgb, population |-> population]

(* --------------------------- sorting ----------------------------------- *)
(* Entries are <<pixel, count>>.  Keys: the packed RGB key of              *)
(* get_quantized_colors, or one channel for a Vbox.                        *)
SortKey(dimension, entry) ==
    LET rgb == pixel_to_rgb(entry[1])
    IN  CASE dimension = "Packed" ->
                 rgb[1] * Pow2(QUANTIZE_WORD_WIDTH) * Pow2(QUANTIZE_WORD_WIDTH)
                 + rgb[2] * Pow2(QUANTIZE_WORD_WIDTH) + rgb[3]
          [] dimension = "Red" -> rgb[1]
          [] dimension = "Green" -> rgb[2]
          [] OTHER -> rgb[3]

RECURSIVE InsertStable(_, _, _)
InsertStable(sorted, entry, dimension) ==
    IF sorted = <<>>
    THEN <<entry>>
    ELSE IF SortKey(dimension, Last(sorted)) <= SortKey(dimension, entry)
         THEN Append(sorted, entry)
         ELSE Append(InsertStable(Front(sorted), entry, dimension), Last(sorted))

(* slice::sort_by / sort_by_key are stable.                                *)
RECURSIVE StableSort(_, _)
StableSort(entries, dimension) ==
    IF entries = <<>>
    THEN <<>>
    ELSE InsertStable(StableSort(Front(entries), dimension), Last(entries), dimension)

(* ------------------------------- Vbox ---------------------------------- *)
(* A Vbox borrows the sub-slice [start, start+len) of the color buffer.    *)
Slice(buffer, start, len) == SubSeq(buffer, start + 1, start + len)

SetMin(S) == CHOOSE x \in S : \A y \in S : x <= y

SetMax(S) == CHOOSE x \in S : \A y \in S : x >= y

RECURSIVE SumCounts(_)
SumCounts(entries) ==
    IF entries = <<>> THEN 0 ELSE SumCounts(Front(entries)) + Last(entries)[2]

RECURSIVE WeightedSum(_, _)
WeightedSum(entries, channel) ==
    IF entries = <<>>
    THEN 0
    ELSE WeightedSum(Front(entries), channel)
         + pixel_to_rgb(Last(entries)[1])[channel] * Last(entries)[2]

Vbox_new(buffer, start, len) ==
    LET slice == Slice(buffer, start, len)
        chan(k) == {pixel_to_rgb(slice[i][1])[k] : i \in DOMAIN slice}
    IN  [start |-> start,
         len |-> len,
         population |-> SumCounts(slice),
         red_range |-> <<SetMin(chan(1) \cup {QUANTIZE_WORD_MAX}), SetMax(chan(1) \cup {0})>>,
         green_range |-> <<SetMin(chan(2) \cup {QUANTIZE_WORD_MAX}), SetMax(chan(2) \cup {0})>>,
         blue_range |-> <<SetMin(chan(3) \cup {QUANTIZE_WORD_MAX}), SetMax(chan(3) \cup {0})>>]

(* u8 arithmetic, then widened to u32 (release build: wrapping).           *)
volume(vbox) ==
    ((vbox.red_range[2] - vbox.red_range[1] + 1) % 256)
    * ((vbox.green_range[2] - vbox.green_range[1] + 1) % 256)
    * ((vbox.blue_range[2] - vbox.blue_range[1] + 1) % 256)

can_split(vbox) == vbox.len > 1

get_longest_dimension(vbox) ==
    LET red_length == vbox.red_range[2] - vbox.red_range[1]
        green_length == vbox.green_range[2] - vbox.green_range[1]
        blue_length == vbox.blue_range[2] - vbox.blue_range[1]
    IN  IF red_length >= green_length /\ red_length >= blue_length
        THEN "Red"
        ELSE IF green_length >= red_length /\ green_length >= blue_length
             THEN "Green"
             ELSE "Blue"

(* The buffer after the box has sorted its own slice.                      *)
sort_colors_by_longest_dimension(buffer, vbox) ==
    LET sorted == StableSort(Slice(buffer, vbox.start, vbox.len), get_longest_dimension(vbox))
    IN  [i \in DOMAIN buffer |->
            IF i > vbox.start /\ i <= vbox.start + vbox.len
            THEN sorted[i - vbox.start]
            ELSE buffer[i]]

(* a split point that is not raised to 1                                   *)
find_split_point_unclamped(buffer, vbox) ==
    LET slice == Slice(buffer, vbox.start, vbox.len)
        midpoint == vbox.population \div 2
        crossing == {i \in 0..(vbox.len - 1) : SumCounts(SubSeq(slice, 1, i + 1)) >= midpoint}
    IN  IF crossing = {} THEN 1 ELSE SetMin(crossing)

(* First index (0-based) whose running population reaches the midpoint,    *)
(* raised to 1.                                                            *)
find_split_point(buffer, vbox) ==
    LET slice == Slice(buffer, vbox.start, vbox.len)
        midpoint == vbox.population \div 2
        crossing == {i \in 0..(vbox.len - 1) : SumCounts(SubSeq(slice, 1, i + 1)) >= midpoint}
    IN  IF crossing = {} THEN 1 ELSE Max2(SetMin(crossing), 1)

(* <<buffer after the sort, old_box, new_box>>                             *)
split_box(buffer, vbox) ==
    LET sortedBuffer == sort_colors_by_longest_dimension(buffer, vbox)
        split_point == find_split_point(sortedBuffer, vbox)
    IN  <<sortedBuffer,
          Vbox_new(sortedBuffer, vbox.start, split_point),
          Vbox_new(sortedBuffer, vbox.start + split_point, vbox.len - split_point)>>

(* a mean that is rounded to the nearest integer                          *)
MeanAsU8_rounded(sum, pop) == IF pop = 0 THEN 0 ELSE Min2((2 * sum + pop) \div (2 * pop), 255)

(* f32 division, then `as u8` (truncating, NaN becomes 0), then 5 -> 8 bits. *)
MeanAsU8(sum, pop) == IF pop = 0 THEN 0 ELSE Min2(sum \div pop, 255)

get_average_color(buffer, vbox) ==
    LET slice == Slice(buffer, vbox.start, vbox.len)
        pop == SumCounts(slice)
    IN  Swatch_new(<<modify_width(MeanAsU8(WeightedSum(slice, 1), pop), QUANTIZE_WORD_WIDTH, 8),
                     modify_width(MeanAsU8(WeightedSum(slice, 2), pop), QUANTIZE_WORD_WIDTH, 8),
                     modify_width(MeanAsU8(WeightedSum(slice, 3), pop), QUANTIZE_WORD_WIDTH, 8)>>,
                   pop)

(* ------------------ BinaryHeap<Vbox> (std, max-heap by Ord) ------------ *)
(* Ord for Vbox: self.cmp(other) = other.volume().cmp(self.volume()).      *)
Vbox_cmp(self, other) ==
    IF volume(other) < volume(self) THEN "Less"
    ELSE IF volume(other) > volume(self) THEN "Greater" ELSE "Equal"

Vbox_le(a, b) == Vbox_cmp(a, b) # "Greater"

(* heap positions are 0-based; data is a sequence                          *)
HeapSwap(data, i, j) == [data EXCEPT ![i + 1] = data[j + 1], ![j + 1] = data[i + 1]]

RECURSIVE sift_up(_, _, _)
sift_up(data, start, pos) ==
    IF pos > start
    THEN LET parent == (pos - 1) \div 2
         IN  IF Vbox_le(data[pos + 1], data[parent + 1])
             THEN data
             ELSE sift_up(HeapSwap(data, pos, parent), start, parent)
    ELSE data

RECURSIVE SiftDownLoop(_, _)
SiftDownLoop(data, pos) ==
    LET end == Len(data)
        child == 2 * pos + 1
    IN  IF end >= 2 /\ child <= end - 2
        THEN LET c == IF Vbox_le(data[child + 1], data[child + 2]) THEN child + 1 ELSE child
             IN  SiftDownLoop(HeapSwap(data, pos, c), c)
        ELSE IF child = end - 1
             THEN <<HeapSwap(data, pos, child), child>>
             ELSE <<data, pos>>

sift_down_to_bottom(data, pos) ==
    LET down == SiftDownLoop(data, pos)
    IN  sift_up(down[1], pos, down[2])

BinaryHeap_push(data, item) == sift_up(Append(data, item), 0, Len(data))

(* <<popped item, remaining heap>>, for a non-empty heap                   *)
BinaryHeap_pop(data) ==
    LET item == Last(data)
        rest == Front(data)
    IN  IF rest = <<>>
        THEN <<item, rest>>
        ELSE <<rest[1], sift_down_to_bottom([rest EXCEPT ![1] = item], 0)>>

(* ------------------------------ Target --------------------------------- *)
(* saturation_targets / lightness_targets are <<min, target, max>> in      *)
(* hundredths, weights are <<sat, luma, pop>> in Scale units.              *)
Target_new(name) ==
    [name |-> name,
     saturation_targets |-> <<0, 50, 100>>,
     lightness_targets |-> <<0, 50, 100>>,
     weights |-> <<WEIGHT_SATURATION * (Scale \div 100),
                   WEIGHT_LUMA * (Scale \div 100),
                   WEIGHT_POPULATION * (Scale \div 100)>>,
     is_exclusive |-> TRUE]

light_vibrant ==
    [Target_new(0) EXCEPT !.saturation_targets = <<MIN_VIBRANT_SATURATION, TARGET_VIBRANT_SATURATION, 100>>,
                          !.lightness_targets = <<MIN_LIGHT_LUMA, TARGET_LIGHT_LUMA, 100>>]

vibrant ==
    [Target_new(1) EXCEPT !.saturation_targets = <<MIN_VIBRANT_SATURATION, TARGET_VIBRANT_SATURATION, 100>>,
                          !.lightness_targets = <<MIN_NORMAL_LUMA, TARGET_NORMAL_LUMA, MAX_NORMAL_LUMA>>]

dark_vibrant ==
    [Target_new(2) EXCEPT !.saturation_targets = <<MIN_VIBRANT_SATURATION, TARGET_VIBRANT_SATURATION, 100>>,
                          !.lightness_targets = <<0, TARGET_DARK_LUMA, MAX_DARK_LUMA>>]

light_muted ==
    [Target_new(3) EXCEPT !.saturation_targets = <<0, TARGET_MUTED_SATURATION, MAX_MUTED_SATURATION>>,
                          !.lightness_targets = <<MIN_LIGHT_LUMA, TARGET_LIGHT_LUMA, 100>>]

muted ==
    [Target_new(4) EXCEPT !.saturation_targets = <<0, TARGET_MUTED_SATURATION, MAX_MUTED_SATURATION>>,
                          !.lightness_targets = <<MIN_NORMAL_LUMA, TARGET_NORMAL_LUMA, MAX_NORMAL_LUMA>>]

dark_muted ==
    [Target_new(5) EXCEPT !.saturation_targets = <<0, TARGET_MUTED_SATURATION, MAX_MUTED_SATURATION>>,
                          !.lightness_targets = <<0, TARGET_DARK_LUMA, MAX_DARK_LUMA>>]

default_targets == <<light_vibrant, vibrant, dark_vibrant, light_muted, muted, dark_muted>>

normalize_weights(target) ==
    LET w == target.weights
        weights_sum == w[1] + w[2] + w[3]
        norm(x) == IF x > 0 THEN (x * Scale) \div weights_sum ELSE x
    IN  IF weights_sum # 0
        THEN [target EXCEPT !.weights = <<norm(w[1]), norm(w[2]), norm(w[3])>>]
        ELSE target

(* ----------------------------- scoring --------------------------------- *)
(* Swatch::hsl (palette crate): the same saturation and lightness as       *)
(* rgb_to_hsl; the hue is not used by the scoring.                         *)
Swatch_hsl(swatch) == rgb_to_hsl(swatch.rgb)

should_be_scored_for_target(swatch, target, used) ==
    LET hsl == Swatch_hsl(swatch)
    IN  /\ target.saturation_targets[1] * hsl.sd <= 100 * hsl.sn
        /\ 100 * hsl.sn <= target.saturation_targets[3] * hsl.sd
        /\ target.lightness_targets[1] * hsl.ld <= 100 * hsl.ln
        /\ 100 * hsl.ln <= target.lightness_targets[3] * hsl.ld
        /\ swatch.rgb \notin used

(* Iterator::max_by_key: of several maxima the last one is returned.       *)
RECURSIVE MaxByPopulation(_)
MaxByPopulation(list) ==
    IF Len(list) = 1
    THEN list[1]
    ELSE LET best == MaxByPopulation(Front(list))
         IN  IF best.population > Last(list).population THEN best ELSE Last(list)

(* <<>> is None, <<swatch>> is Some(swatch)                                *)
DominantSwatch(list) == IF list = <<>> THEN <<>> ELSE <<MaxByPopulation(list)>>

generate_score(swatch, dominant_swatch, target) ==
    LET hsl == Swatch_hsl(swatch)
        saturation == (hsl.sn * Scale) \div hsl.sd
        lightness == (hsl.ln * Scale) \div hsl.ld
        max_population == IF dominant_swatch # <<>> THEN dominant_swatch[1].population ELSE 1
        saturation_score ==
            target.weights[1] * (Scale - Abs(saturation - target.saturation_targets[2] * (Scale \div 100)))
        lightness_score ==
            target.weights[2] * (Scale - Abs(lightness - target.lightness_targets[2] * (Scale \div 100)))
        population_score ==
            target.weights[3] * (IF max_population = 0 THEN 0
                                 ELSE (swatch.population * Scale) \div max_population)
    IN  saturation_score + lightness_score + population_score

(* Iterator::max_by: of several maxima the last one is returned.           *)
RECURSIVE MaxByScore(_, _, _)
MaxByScore(list, dominant_swatch, target) ==
    IF Len(list) = 1
    THEN list[1]
    ELSE LET best == MaxByScore(Front(list), dominant_swatch, target)
         IN  IF generate_score(best, dominant_swatch, target)
                  > generate_score(Last(list), dominant_swatch, target)
             THEN best
             ELSE Last(list)

RECURSIVE FilterSeq(_, _)
FilterSeq(list, keep) ==
    IF list = <<>>
    THEN <<>>
    ELSE IF keep[Len(list)]
         THEN Append(FilterSeq(Front(list), keep), Last(list))
         ELSE FilterSeq(Front(list), keep)

get_max_scored_swatch_for_target(list, target, used) ==
    LET eligible == FilterSeq(list, [i \in DOMAIN list |-> should_be_scored_for_target(list[i], target, used)])
    IN  IF eligible = <<>>
        THEN <<>>
        ELSE <<MaxByScore(eligible, DominantSwatch(list), target)>>

(* a selection that does not record the color it took                     *)
generate_scored_target_forgetful(list, target, used) ==
    LET best == IF target.is_exclusive
                THEN get_max_scored_swatch_for_target(list, target, used)
                ELSE <<>>
    IN  <<best, used>>

(* <<selected (None or Some), used_colors afterwards>>                     *)
generate_scored_target(list, target, used) ==
    LET best == IF target.is_exclusive
                THEN get_max_scored_swatch_for_target(list, target, used)
                ELSE <<>>
    IN  IF best # <<>>
        THEN <<best, used \cup {best[1].rgb}>>
        ELSE <<<<>>, used>>

(* ------------------------------ inputs --------------------------------- *)
(* Pixel values of 3-channel (Rgb<u8>) and 4-channel (Rgba<u8>) images.    *)
RgbPixels ==
    <<<<255, 0, 0>>, <<250, 0, 0>>, <<0, 255, 0>>, <<0, 0, 0>>, <<255, 255, 255>>,
      <<240, 240, 120>>, <<240, 80, 120>>>>

RgbaPixels == <<<<255, 0, 0, 255>>, <<255, 0, 0, 0>>, <<0, 0, 255, 255>>>>

(* The histogram only counts pixels, and the order in which the map hands  *)
(* its entries out is chosen separately (CollectColors), so each multiset  *)
(* of pixels is listed once, in the order of the palette.                  *)
ImagesOf(palette, n) ==
    UNION {{[i \in 1..k |-> palette[f[i]]] :
               f \in {g \in [1..k -> DOMAIN palette] : \A i \in 1..(k - 1) : g[i] <= g[i + 1]}} :
           k \in 0..n}

Images == ImagesOf(RgbPixels, MaxPixels) \cup ImagesOf(RgbaPixels, MaxPixels)

MaxColorsChoices == (1..MaxSmallColors) \cup {DEFAULT_CALCULATE_NUMBER_COLORS}

DefaultFilter == [kind |-> "DefaultFilter"]

CustomFilter == [kind |-> "CustomFilter"]

RejectFilter(colors) == [kind |-> "Reject", rejects |-> colors]

FilterLists ==
    {<<>>,
     <<DefaultFilter>>,
     <<CustomFilter, RejectFilter({<<0, 31, 0>>, <<248, 0, 0>>})>>,
     <<RejectFilter({<<31, 0, 0>>, <<0, 31, 0>>})>>}

TargetLists ==
    {default_targets,
     <<Target_new(100), [Target_new(101) EXCEPT !.is_exclusive = FALSE], Target_new(102)>>}

(* ------------------------------- state --------------------------------- *)
VARIABLES
    image,              \* PaletteBuilder.image, as its dimensions <<width, height>>
    resize_area,        \* PaletteBuilder.resize_area: None (<<>>) or Some (<<area>>)
    region,             \* PaletteBuilder.region: None (<<>>) or Some (<<Rect>>)
    original,           \* the image dimensions, region and targets generate() was called with
    pixels,             \* ColorCutQuantizer.pixels
    max_colors,         \* ColorCutQuantizer.max_colors
    filters,            \* ColorCutQuantizer.filters
    targets,            \* PaletteBuilder.targets
    pc,                 \* position in generate / get_quantized_colors
    caller,             \* "generate", or "requantize" for a second quantizer run
    hist,               \* HashMap: quantized pixel -> count
    hist_len,           \* the local hist_len
    colors,             \* the (pixel, count) buffer the boxes borrow from
    pq,                 \* BinaryHeap<Vbox> as its data vector
    last_pop,           \* <<>> or <<box popped by the last loop turn, queue before the pop, its two halves or <<>>>>
    swatches,           \* result of get_quantized_colors
    prev_swatches,      \* result of the first quantizer run, during a second one
    used_colors,        \* HashSet of claimed colors
    selected_swatches,  \* target id -> None (<<>>) or Some (<<swatch>>)
    next_target         \* index of the target generate() handles next

vars == <<image, resize_area, region, original, pixels, max_colors, filters, targets, pc,
          caller, hist, hist_len, colors, pq,
          last_pop, swatches, prev_swatches, used_colors, selected_swatches, next_target>>

builder == <<image, resize_area, region, original>>

config == <<pixels, max_colors, filters>>

EmptyMap == [x \in {} |-> 0]

Init ==
    /\ pixels \in Images
    /\ max_colors \in MaxColorsChoices
    /\ filters \in FilterLists
    /\ targets \in TargetLists
    /\ image = <<Len(pixels), 1>>
    /\ resize_area = <<>>
    /\ region = <<>>
    /\ original = [image |-> image, region |-> region, targets |-> targets]
    /\ pc = "start"
    /\ caller = "generate"
    /\ hist = EmptyMap
    /\ hist_len = 0
    /\ colors = <<>>
    /\ pq = <<>>
    /\ last_pop = <<>>
    /\ swatches = <<>>
    /\ prev_swatches = <<>>
    /\ used_colors = {}
    /\ selected_swatches = EmptyMap
    /\ next_target = 1

(* ------------------------- get_quantized_colors ------------------------ *)
Histogram(buffer) ==
    [q \in {QuantizePixel(buffer[i]) : i \in DOMAIN buffer} |->
        Cardinality({i \in DOMAIN buffer : QuantizePixel(buffer[i]) = q})]

(* filter_map over the map in iteration order `order`                      *)
FilterMapEntries(order, filterList, h) ==
    FilterSeq([i \in DOMAIN order |-> <<order[i], h[order[i]]>>],
              [i \in DOMAIN order |-> ~should_ignore_color(filterList, pixel_to_rgb(order[i]))])

BuildHistogram ==
    /\ pc = "start"
    /\ hist' = Histogram(pixels)
    /\ pc' = "histogram"
    /\ UNCHANGED <<builder, config, targets, caller, hist_len, colors, pq, last_pop, swatches,
                   prev_swatches, used_colors, selected_swatches, next_target>>

(* hist.len(), hist.into_iter() in the map's iteration order, filter_map,  *)
(* sort_by_key on the packed key                                           *)
CollectColors ==
    /\ pc = "histogram"
    /\ hist_len' = Cardinality(DOMAIN hist)
    /\ \E order \in Perms(DOMAIN hist) :
           colors' = StableSort(FilterMapEntries(order, filters, hist), "Packed")
    /\ pc' = "collected"
    /\ UNCHANGED <<builder, config, targets, caller, hist, pq, last_pop, swatches,
                   prev_swatches, used_colors, selected_swatches, next_target>>

Returned == IF caller = "generate" THEN "quantized" ELSE "requantized"

ReturnColors ==
    /\ pc = "collected"
    /\ hist_len <= max_colors
    /\ swatches' = [i \in DOMAIN colors |-> Swatch_new(pixel_to_rgb(colors[i][1]), colors[i][2])]
    /\ pc' = Returned
    /\ UNCHANGED <<builder, config, targets, caller, hist, hist_len, colors, pq, last_pop,
                   prev_swatches, used_colors, selected_swatches, next_target>>

QuantizePixels ==
    /\ pc = "collected"
    /\ ~(hist_len <= max_colors)
    /\ pq' = BinaryHeap_push(<<>>, Vbox_new(colors, 0, Len(colors)))
    /\ pc' = "split"
    /\ UNCHANGED <<builder, config, targets, caller, hist, hist_len, colors, last_pop, swatches,
                   prev_swatches, used_colors, selected_swatches, next_target>>

(* a loop that tests pq.len() <= max_colors                               *)
loop_continues_inclusive(queue, limit) == Len(queue) <= limit

(* the condition of the while loop of split_boxes                          *)
loop_continues(queue, limit) == Len(queue) < limit

(* one turn of the loop of split_boxes that splits the popped box          *)
SplitBoxesSplit ==
    /\ pc = "split"
    /\ loop_continues(pq, max_colors)
    /\ pq # <<>>
    /\ LET popped == BinaryHeap_pop(pq)
           vbox == popped[1]
       IN  /\ can_split(vbox)
           /\ LET parts == split_box(colors, vbox)
              IN  /\ colors' = parts[1]
                  /\ pq' = BinaryHeap_push(BinaryHeap_push(popped[2], parts[2]), parts[3])
                  /\ last_pop' = <<vbox, pq, <<parts[2], parts[3]>>>>
    /\ UNCHANGED <<builder, config, targets, pc, caller, hist, hist_len, swatches,
                   prev_swatches, used_colors, selected_swatches, next_target>>

(* the turn that finds the queue empty or pops a box that cannot be split: *)
(* split_boxes returns, the popped box is not pushed back                  *)
SplitBoxesReturn ==
    /\ pc = "split"
    /\ loop_continues(pq, max_colors)
    /\ IF pq = <<>>
       THEN UNCHANGED <<pq, last_pop>>
       ELSE LET popped == BinaryHeap_pop(pq)
            IN  /\ ~can_split(popped[1])
                /\ pq' = popped[2]
                /\ last_pop' = <<popped[1], pq, <<>>>>
    /\ pc' = "average"
    /\ UNCHANGED <<builder, config, targets, caller, hist, hist_len, colors, swatches,
                   prev_swatches, used_colors, selected_swatches, next_target>>

(* the loop condition pq.len() < max_colors is false                       *)
SplitBoxesFull ==
    /\ pc = "split"
    /\ ~loop_continues(pq, max_colors)
    /\ pc' = "average"
    /\ UNCHANGED <<builder, config, targets, caller, hist, hist_len, colors, pq, last_pop, swatches,
                   prev_swatches, used_colors, selected_swatches, next_target>>

(* pq.iter().filter_map(average, filters).collect()                        *)
AverageColors ==
    /\ pc = "average"
    /\ LET averaged == [i \in DOMAIN pq |-> get_average_color(colors, pq[i])]
       IN  swatches' = FilterSeq(averaged,
                                 [i \in DOMAIN pq |-> ~should_ignore_color(filters, averaged[i].rgb)])
    /\ pc' = Returned
    /\ UNCHANGED <<builder, config, targets, caller, hist, hist_len, colors, pq, last_pop,
                   prev_swatches, used_colors, selected_swatches, next_target>>

(* ------------------------------ generate ------------------------------- *)
(* one turn of the map over targets.iter_mut()                             *)
ScoreTarget ==
    /\ pc = "quantized"
    /\ next_target <= Len(targets)
    /\ LET target == normalize_weights(targets[next_target])
           scored == generate_scored_target(swatches, target, used_colors)
       IN  /\ targets' = [targets EXCEPT ![next_target] = target]
           /\ selected_swatches' =
                  [id \in DOMAIN selected_swatches \cup {target.name} |->
                      IF id = target.name THEN scored[1] ELSE selected_swatches[id]]
           /\ used_colors' = scored[2]
    /\ next_target' = next_target + 1
    /\ UNCHANGED <<builder, config, pc, caller, hist, hist_len, colors, pq, last_pop, swatches,
                   prev_swatches>>

BuildPalette ==
    /\ pc = "quantized"
    /\ next_target > Len(targets)
    /\ pc' = "done"
    /\ UNCHANGED <<builder, config, targets, caller, hist, hist_len, colors, pq, last_pop, swatches,
                   prev_swatches, used_colors, selected_swatches, next_target>>

(* a second quantizer over the same pixels, max_colors and filters         *)
Requantize ==
    /\ pc = "done"
    /\ caller = "generate"
    /\ caller' = "requantize"
    /\ prev_swatches' = swatches
    /\ pc' = "start"
    /\ hist' = EmptyMap
    /\ hist_len' = 0
    /\ colors' = <<>>
    /\ pq' = <<>>
    /\ last_pop' = <<>>
    /\ swatches' = <<>>
    /\ UNCHANGED <<builder, config, targets, used_colors, selected_swatches, next_target>>

Next ==
    \/ BuildHistogram
    \/ CollectColors
    \/ ReturnColors
    \/ QuantizePixels
    \/ SplitBoxesSplit
    \/ SplitBoxesReturn
    \/ SplitBoxesFull
    \/ AverageColors
    \/ ScoreTarget
    \/ BuildPalette
    \/ Requantize

Spec == Init /\ [][Next]_vars

(* ------------------- generate: resizing and the region ------------------ *)
(* (side as f32 * (resize_area / area).sqrt()).ceil(): the least n with     *)
(* n * n * other >= side * resize_area, where area = side * other           *)
RECURSIVE CeilScaledFrom(_, _, _, _)
CeilScaledFrom(n, side, other, area) ==
    IF n * n * other >= side * area THEN n ELSE CeilScaledFrom(n + 1, side, other, area)

CeilScaled(side, other, area) == CeilScaledFrom(0, side, other, area)

(* <<resized?, dimensions afterwards>>                                      *)
scale_image_down(dimensions, resize) ==
    LET width == dimensions[1]
        height == dimensions[2]
        area == width * height
    IN  IF resize # <<>> /\ resize[1] > 0 /\ area > resize[1]
        THEN <<TRUE, <<CeilScaled(width, height, resize[1]), CeilScaled(height, width, resize[1])>>>>
        ELSE <<FALSE, dimensions>>

Rect(x, y, width, height) == [x |-> x, y |-> y, width |-> width, height |-> height]

(* (value as f32 * scale).floor() with scale = width / height of the image  *)
TimesScale(value, dimensions) == (value * dimensions[1]) \div dimensions[2]

(* image.width() - region.x is a u32 subtraction                            *)
RegionOverflows(rect, dimensions) ==
    \/ TimesScale(rect.x, dimensions) > dimensions[1]
    \/ TimesScale(rect.y, dimensions) > dimensions[2]

(* a wrapped difference is at least 2^32 - x, so min() returns its receiver *)
MinWrapping(a, minuend, subtrahend) ==
    IF subtrahend > minuend THEN a ELSE Min2(a, minuend - subtrahend)

ScaledRegion(rect, dimensions) ==
    LET x == TimesScale(rect.x, dimensions)
        y == TimesScale(rect.y, dimensions)
    IN  Rect(x, y,
             MinWrapping(TimesScale(rect.width, dimensions) + x, dimensions[1], x),
             MinWrapping(TimesScale(rect.height, dimensions) + y, dimensions[2], y))

Dimensions == (1..MaxDim) \X (1..MaxDim)

ResizeAreas == {<<>>} \cup {<<a>> : a \in 0..(MaxDim * MaxDim)}

RegionsOf(dimensions) ==
    {<<>>} \cup
    {<<Rect(x, y, w, h)>> : x \in 0..(dimensions[1] - 1), y \in 0..(dimensions[2] - 1),
                            w \in 1..dimensions[1], h \in 1..dimensions[2]}

RegionsWithin(dimensions) ==
    {r \in RegionsOf(dimensions) :
        r # <<>> => /\ r[1].x + r[1].width <= dimensions[1]
                    /\ r[1].y + r[1].height <= dimensions[2]}

InitRegion ==
    /\ image \in Dimensions
    /\ resize_area \in ResizeAreas
    /\ region \in RegionsWithin(image)
    /\ pixels = <<>>
    /\ max_colors = DEFAULT_CALCULATE_NUMBER_COLORS
    /\ filters = <<DefaultFilter>>
    /\ targets = default_targets
    /\ original = [image |-> image, region |-> region, targets |-> targets]
    /\ pc = "generate"
    /\ caller = "generate"
    /\ hist = EmptyMap
    /\ hist_len = 0
    /\ colors = <<>>
    /\ pq = <<>>
    /\ last_pop = <<>>
    /\ swatches = <<>>
    /\ prev_swatches = <<>>
    /\ used_colors = {}
    /\ selected_swatches = EmptyMap
    /\ next_target = 1

quantizer == <<config, targets, caller, hist, hist_len, colors, pq, last_pop, swatches,
               prev_swatches, used_colors, selected_swatches, next_target>>

ScaleImageDown ==
    /\ pc = "generate"
    /\ LET scaled == scale_image_down(image, resize_area)
       IN  /\ image' = scaled[2]
           /\ pc' = IF scaled[1] THEN "scaled" ELSE "region_kept"
    /\ UNCHANGED <<resize_area, region, original, quantizer>>

(* the image was not resized, or no region is set                           *)
KeepRegion ==
    /\ pc = "scaled"
    /\ region = <<>>
    /\ pc' = "region_kept"
    /\ UNCHANGED <<builder, quantizer>>

(* release build: the u32 subtraction wraps                                 *)
ScaleRegion ==
    /\ pc = "scaled"
    /\ region # <<>>
    /\ region' = <<ScaledRegion(region[1], image)>>
    /\ pc' = "region_scaled"
    /\ UNCHANGED <<image, resize_area, original, quantizer>>

(* debug build: the u32 subtraction panics on overflow                      *)
ScaleRegionPanic ==
    /\ pc = "scaled"
    /\ region # <<>>
    /\ RegionOverflows(region[1], image)
    /\ pc' = "panicked"
    /\ UNCHANGED <<builder, quantizer>>

NextRegion ==
    \/ ScaleImageDown
    \/ KeepRegion
    \/ ScaleRegion
    \/ ScaleRegionPanic

SpecRegion == InitRegion /\ [][NextRegion]_vars

(* --------------- generate with targets of arbitrary weights ------------- *)
WeightChoices == {0 - WEIGHT_SATURATION, 0, WEIGHT_SATURATION, WEIGHT_LUMA, 100}

WeightedTargets ==
    {<<[Target_new(100) EXCEPT !.weights = <<a * (Scale \div 100), b * (Scale \div 100),
                                              c * (Scale \div 100)>>]>> :
        a \in WeightChoices, b \in WeightChoices, c \in WeightChoices}

InitWeights ==
    /\ pixels = <<<<0, 0, 0>>, <<255, 255, 255>>, <<240, 240, 120>>, <<240, 80, 120>>>>
    /\ max_colors \in MaxColorsChoices
    /\ filters = <<>>
    /\ targets \in WeightedTargets
    /\ image = <<Len(pixels), 1>>
    /\ resize_area = <<>>
    /\ region = <<>>
    /\ original = [image |-> image, region |-> region, targets |-> targets]
    /\ pc = "start"
    /\ caller = "generate"
    /\ hist = EmptyMap
    /\ hist_len = 0
    /\ colors = <<>>
    /\ pq = <<>>
    /\ last_pop = <<>>
    /\ swatches = <<>>
    /\ prev_swatches = <<>>
    /\ used_colors = {}
    /\ selected_swatches = EmptyMap
    /\ next_target = 1

SpecWeights == InitWeights /\ [][Next]_vars

(* ------------------------- vocabulary of the claims --------------------- *)
AllFiltersAllow(rgb) ==
    \A i \in DOMAIN filters : is_allowed(filters[i], rgb, rgb_to_hsl(rgb))

(* the histogram entries that remain after filtering                       *)
FilteredEntries == {q \in DOMAIN hist : AllFiltersAllow(pixel_to_rgb(q))}

QuantizerReturned == pc \in {"quantized", "requantized", "done"}

PartitionPath == Cardinality(DOMAIN hist) > max_colors

RECURSIVE SumOver(_, _)
SumOver(S, f) ==
    IF S = {} THEN 0 ELSE LET x == CHOOSE y \in S : TRUE IN f[x] + SumOver(S \ {x}, f)

(* C1: for every pixel list, filter list and K >= 1, get_quantized_colors  *)
(* returns at most K swatches.                                             *)
C1_AtMostKSwatches == QuantizerReturned => Len(swatches) <= max_colors

(* the split loop ran and the quantizer returned exactly K swatches        *)
C1_Witness ==
    /\ pc = "quantized"
    /\ PartitionPath
    /\ last_pop # <<>>
    /\ max_colors >= 2
    /\ Len(swatches) = max_colors

(* C2: whenever the number of histogram entries that remain after          *)
(* filtering is <= K, the quantizer does no partitioning and returns       *)
(* exactly that many swatches, one per remaining entry, each with the      *)
(* entry's population.                                                     *)
C2_DirectWhenFilteredFits ==
    (pc = "quantized" /\ Cardinality(FilteredEntries) <= max_colors)
        => /\ pq = <<>>
           /\ Len(swatches) = Cardinality(FilteredEntries)
           /\ \A q \in FilteredEntries :
                  \E i \in DOMAIN swatches : swatches[i].population = hist[q]

(* C3: in one palette generation the swatches selected for distinct        *)
(* targets have pairwise distinct RGB values, also when the targets'       *)
(* acceptance bands overlap.                                               *)
C3_TargetExclusivity ==
    \A a, b \in DOMAIN selected_swatches :
        (a # b /\ selected_swatches[a] # <<>> /\ selected_swatches[b] # <<>>)
            => selected_swatches[a][1].rgb # selected_swatches[b][1].rgb

(* two targets have each selected a swatch, and the color the first one    *)
(* took lies inside the bands of the second as well                        *)
C3_Witness ==
    /\ pc = "done"
    /\ \E i, j \in DOMAIN targets :
           /\ i < j
           /\ selected_swatches[targets[i].name] # <<>>
           /\ selected_swatches[targets[j].name] # <<>>
           /\ should_be_scored_for_target(selected_swatches[targets[i].name][1], targets[j], {})

(* C4: for an image whose pixels are all pure red (255,0,0), with K = 16,  *)
(* the histogram has one entry, nothing is split, and the result is one    *)
(* swatch with RGB (255,0,0) and the pixel count as its population.        *)
C4_PureRedImage ==
    (/\ pc = "quantized"
     /\ pixels # <<>>
     /\ \A i \in DOMAIN pixels : pixels[i] = <<255, 0, 0>>
     /\ max_colors = DEFAULT_CALCULATE_NUMBER_COLORS
     /\ filters \in {<<>>, <<DefaultFilter>>})
        => /\ Cardinality(DOMAIN hist) = 1
           /\ pq = <<>>
           /\ swatches = <<Swatch_new(<<255, 0, 0>>, Len(pixels))>>

(* C5: for the 2-pixel image (0,0,0), (255,255,255) with the default       *)
(* filter, both colors are rejected, the swatch list is empty and every    *)
(* target maps to no swatch.                                               *)
C5_BlackAndWhiteImage ==
    (/\ pc = "done"
     /\ pixels = <<<<0, 0, 0>>, <<255, 255, 255>>>>
     /\ filters = <<DefaultFilter>>
     /\ max_colors = DEFAULT_CALCULATE_NUMBER_COLORS
     /\ targets = default_targets)
        => /\ FilteredEntries = {}
           /\ swatches = <<>>
           /\ \A id \in DOMAIN selected_swatches : selected_swatches[id] = <<>>

(* the average the quantizer is to return for one box over all filtered    *)
(* entries: per channel the population-weighted mean of the 5-bit values,  *)
(* truncated, then widened to 8 bits by a shift of 3                       *)
FilteredPopulation == SumOver(FilteredEntries, [q \in FilteredEntries |-> hist[q]])

FilteredMean(channel) ==
    8 * (SumOver(FilteredEntries, [q \in FilteredEntries |-> q[channel] * hist[q]])
         \div FilteredPopulation)

FilteredAverage ==
    [rgb |-> <<FilteredMean(1), FilteredMean(2), FilteredMean(3)>>,
     population |-> FilteredPopulation]

(* C6 as stated: with K = 1 and more than one filtered histogram color the *)
(* quantizer returns exactly one swatch, the population-weighted average   *)
(* of all filtered colors with the total filtered population.              *)
C6_SingleAverageSwatch ==
    (pc = "quantized" /\ max_colors = 1 /\ Cardinality(FilteredEntries) > 1)
        => swatches = <<FilteredAverage>>

(* C6 amended: with K = 1 and more than one filtered histogram color the   *)
(* quantizer returns the average swatch alone if every filter allows the   *)
(* averaged color, and no swatch otherwise.                                *)
C6_AverageUnlessFiltered ==
    (pc = "quantized" /\ max_colors = 1 /\ Cardinality(FilteredEntries) > 1)
        => swatches = IF AllFiltersAllow(FilteredAverage.rgb)
                      THEN <<FilteredAverage>>
                      ELSE <<>>

(* K = 1, several filtered colors of different channel values whose mean   *)
(* is not an integer, and the average was returned                         *)
C6_Witness ==
    /\ pc = "quantized"
    /\ max_colors = 1
    /\ Cardinality(FilteredEntries) > 1
    /\ Len(swatches) = 1
    /\ \E k \in 1..3 :
           SumOver(FilteredEntries, [q \in FilteredEntries |-> q[k] * hist[q]])
               % FilteredPopulation # 0

(* C7: a second run of get_quantized_colors on the same pixels, K and      *)
(* filters returns the same swatch list in the same order, whatever order  *)
(* the hash map iterates in, for 3-channel and 4-channel pixels.           *)
C7_SameResultTwice == pc = "requantized" => swatches = prev_swatches

(* C8: if no histogram entry remains after filtering, the quantizer        *)
(* returns an empty swatch list, for every K >= 1, filter list and number  *)
(* of entries before filtering.                                            *)
C8_EmptyWhenAllFiltered ==
    (QuantizerReturned /\ FilteredEntries = {}) => swatches = <<>>

(* C9: at both filtering points a color is kept iff every filter of the    *)
(* list allows it: the color buffer holds exactly the histogram entries    *)
(* every filter allows, and after partitioning the result holds exactly    *)
(* the box averages every filter allows; an empty list keeps everything.   *)
C9_FilterConjunction ==
    /\ pc \in {"collected", "split", "average", "quantized"}
           => /\ {colors[i][1] : i \in DOMAIN colors}
                     = {q \in DOMAIN hist :
                            \A k \in DOMAIN filters :
                                is_allowed(filters[k], pixel_to_rgb(q), rgb_to_hsl(pixel_to_rgb(q)))}
              /\ filters = <<>> => Len(colors) = Cardinality(DOMAIN hist)
    /\ (pc = "quantized" /\ PartitionPath)
           => /\ \A i \in DOMAIN pq :
                     LET rgb == get_average_color(colors, pq[i]).rgb
                     IN  (\E j \in DOMAIN swatches : swatches[j].rgb = rgb)
                             <=> \A k \in DOMAIN filters :
                                     is_allowed(filters[k], rgb, rgb_to_hsl(rgb))
              /\ filters = <<>> => Len(swatches) = Len(pq)

(* a list of two filters; one histogram color is allowed by the first and  *)
(* rejected by the second and is absent from the buffer, and one box       *)
(* average is allowed by the first and rejected by the second and is       *)
(* absent from the result                                                  *)
C9_Witness ==
    /\ pc = "quantized"
    /\ PartitionPath
    /\ Len(filters) = 2
    /\ \E q \in DOMAIN hist :
           /\ is_allowed(filters[1], pixel_to_rgb(q), rgb_to_hsl(pixel_to_rgb(q)))
           /\ ~is_allowed(filters[2], pixel_to_rgb(q), rgb_to_hsl(pixel_to_rgb(q)))
           /\ \A i \in DOMAIN colors : colors[i][1] # q
    /\ \E i \in DOMAIN pq :
           LET rgb == get_average_color(colors, pq[i]).rgb
           IN  /\ is_allowed(filters[1], rgb, rgb_to_hsl(rgb))
               /\ ~is_allowed(filters[2], rgb, rgb_to_hsl(rgb))
               /\ \A j \in DOMAIN swatches : swatches[j].rgb # rgb

(* C10: alpha is ignored: pixels that differ only in alpha are counted in  *)
(* one histogram entry, so the histogram has one entry per distinct        *)
(* quantized RGB triple.                                                   *)
C10_OneEntryPerRgb ==
    pc # "start" =>
        \A p, q \in DOMAIN hist : pixel_to_rgb(p) = pixel_to_rgb(q) => p = q

(* C12: at every turn of the split loop the box removed from the queue is  *)
(* one whose volume is the largest among the boxes of the queue at that    *)
(* moment.                                                                 *)
C12_PopsLargestVolume ==
    last_pop # <<>> =>
        \A i \in DOMAIN last_pop[2] : volume(last_pop[1]) >= volume(last_pop[2][i])

RECURSIVE SumField(_, _)
SumField(boxes, field) ==
    IF boxes = <<>> THEN 0 ELSE SumField(Front(boxes), field) + Last(boxes)[field]

(* C13: in the partition path, when the split loop has ended, the boxes    *)
(* left in the queue cover every filtered histogram entry exactly once:    *)
(* their populations sum to the total filtered population and no entry is  *)
(* lost.                                                                   *)
C13_QueueCoversFilteredEntries ==
    pc = "average" =>
        /\ SumField(pq, "population") = SumOver(FilteredEntries, [q \in FilteredEntries |-> hist[q]])
        /\ SumField(pq, "len") = Cardinality(FilteredEntries)

(* C14: if the split loop ends with fewer than K boxes in the queue, no    *)
(* box left in the queue has more than one entry.                          *)
C14_UnfilledOnlyWhenUnsplittable ==
    (pc = "average" /\ Len(pq) < max_colors) =>
        \A i \in DOMAIN pq : ~(pq[i].len > 1)

(* running population of the first n entries of a box's slice              *)
Cumulative(buffer, vbox, n) == SumCounts(SubSeq(Slice(buffer, vbox.start, vbox.len), 1, n))

UsedBefore(i) ==
    {selected_swatches[targets[j].name][1].rgb :
        j \in {k \in 1..(i - 1) : selected_swatches[targets[k].name] # <<>>}}

(* C16: when several eligible swatches share the maximum score for a       *)
(* target, the swatch selected is the one that comes first in the swatch   *)
(* list.                                                                   *)
C16_FirstSeenWins ==
    \A i \in 1..(next_target - 1) :
        selected_swatches[targets[i].name] # <<>> =>
            LET eligible == {k \in DOMAIN swatches :
                                should_be_scored_for_target(swatches[k], targets[i], UsedBefore(i))}
                score(k) == generate_score(swatches[k], DominantSwatch(swatches), targets[i])
                best == {k \in eligible : \A m \in eligible : score(k) >= score(m)}
            IN  selected_swatches[targets[i].name][1] = swatches[SetMin(best)]

(* C17: get_average_color is never invoked on a box whose entry slice is   *)
(* empty, for any pixel list, K >= 1 and filter list.                      *)
C17_NoAverageOfEmptyBox ==
    pc = "average" => \A i \in DOMAIN pq : pq[i].len > 0

(* C11: when generate() downsamples the image and a region is set, the      *)
(* region's x, y, width and height are scaled by the ratio by which the     *)
(* image's width and height were scaled (new width / old width for x and    *)
(* width, new height / old height for y and height), up to rounding to a    *)
(* neighbouring whole pixel.                                                *)
ScaledLike(value, scaled, new, old) == Abs(scaled * old - value * new) < old

C11_RegionScaledLikeImage ==
    pc = "region_scaled" =>
        LET given == original.region[1]
            rect == region[1]
        IN  /\ ScaledLike(given.x, rect.x, image[1], original.image[1])
            /\ ScaledLike(given.y, rect.y, image[2], original.image[2])
            /\ ScaledLike(given.width, rect.width, image[1], original.image[1])
            /\ ScaledLike(given.height, rect.height, image[2], original.image[2])

(* C18: after normalize_weights on a target whose raw weight sum is         *)
(* non-zero, all three weights are non-negative and sum to 1 (up to the     *)
(* truncation of the three quotients); if the raw sum is zero the weights   *)
(* are left unchanged.                                                      *)
C18_WeightsNormalized ==
    \A i \in 1..(next_target - 1) :
        LET raw == original.targets[i].weights
            w == targets[i].weights
        IN  IF raw[1] + raw[2] + raw[3] # 0
            THEN /\ \A k \in 1..3 : w[k] >= 0
                 /\ Abs(w[1] + w[2] + w[3] - Scale) <= 3
            ELSE w = raw

====
